---- MODULE Spec2Model ----
(***************************************************************************)
(* Haven: the risk-gated consent subsystem (haven/consent/manager.py) and  *)
(* the destructive integration operations that call it                     *)
(* (haven/integrations/github_service.py, azure_service.py).               *)
(*                                                                         *)
(* TLA+ strings are ASCII only.  Every Arabic text of the source is        *)
(* written here as "ar: " followed by an English gloss; the warning icons  *)
(* are left out.  An English text never starts with "ar: ".                *)
(***************************************************************************)
EXTENDS Naturals, Sequences, FiniteSets, TLC

VARIABLES
    Actions,            \* ConsentManager.ACTIONS (a reserved word here): the class-level dict, name -> Action
    callback,           \* callback[g]: self.callback of gateway instance g
    auto_approve_safe,  \* auto_approve_safe[g]: self.auto_approve_safe of instance g
    last,               \* what the most recent call did and returned
    previous,           \* how the request_consent call before the most recent one ended
    threads,            \* threads[t]: where thread t stands inside request_consent, and its locals
    db,                 \* the tables of the relational store behind MemoryManager
    reply               \* what the most recent call on the store or the workspace returned

vars == <<Actions, callback, auto_approve_safe, last, previous, threads, db, reply>>

\* The state of the consent subsystem, which the store operations leave alone.
consentVars == <<Actions, callback, auto_approve_safe, last, previous, threads>>

-----------------------------------------------------------------------------
(* Bounds of the model *)

\* register_action draws its warning texts from MaxVariant pairs of texts.
MaxVariant == 1

-----------------------------------------------------------------------------
(* Values *)

None == "None"

\* class ActionRisk
SAFE == "safe"
LOW == "low"
MEDIUM == "medium"
HIGH == "high"
CRITICAL == "critical"
ActionRisk == {SAFE, LOW, MEDIUM, HIGH, CRITICAL}

\* dataclass Action
Action(name, description, risk_level, warning_ar, warning_en) ==
    [name |-> name, description |-> description, risk_level |-> risk_level,
     warning_ar |-> warning_ar, warning_en |-> warning_en]

\* The dict literal of the class body.
SeedActions ==
    ("github_delete_repo" :> Action("github_delete_repo",
        "Delete a GitHub repository", CRITICAL,
        "ar: Warning: This will permanently delete the repository. This action cannot be undone.",
        "Warning: This will permanently delete the repository. This action cannot be undone."))
    @@ ("github_force_push" :> Action("github_force_push",
        "Force push to GitHub repository", HIGH,
        "ar: Notice: Force pushing may delete code history. Consider backing up first.",
        "Notice: Force pushing may delete code history. Consider backing up first."))
    @@ ("github_make_public" :> Action("github_make_public",
        "Make repository public", MEDIUM,
        "ar: Note: The repository will be visible to everyone. Ensure no sensitive data is present.",
        "Note: The repository will be visible to everyone. Ensure no sensitive data is present."))
    @@ ("azure_delete_resource" :> Action("azure_delete_resource",
        "Delete Azure resource", HIGH,
        "ar: Warning: This will delete the resource from Azure. This may affect connected services.",
        "Warning: This will delete the resource from Azure. This may affect connected services."))
    @@ ("azure_modify_permissions" :> Action("azure_modify_permissions",
        "Modify Azure resource permissions", MEDIUM,
        "ar: Notice: Access permissions will be modified. Make sure you know what you're doing.",
        "Notice: Access permissions will be modified. Make sure you know what you're doing."))
    @@ ("delete_file" :> Action("delete_file",
        "Delete a file", LOW,
        "ar: The file will be deleted. Do you want to continue?",
        "The file will be deleted. Do you want to continue?"))
    @@ ("clear_history" :> Action("clear_history",
        "Clear conversation history", LOW,
        "ar: Conversation history will be cleared. This cannot be recovered.",
        "Conversation history will be cleared. This cannot be recovered."))

\* Variant: the literal one entry short.
PredefinedActions_Six ==
    [n \in DOMAIN SeedActions \ {"clear_history"} |-> SeedActions[n]]

\* Variant: an entry whose English text was left empty.
PredefinedActions_MissingText ==
    [SeedActions EXCEPT !["delete_file"].warning_en = ""]

\* The class attribute ACTIONS as the class body builds it.
PredefinedActions == SeedActions

\* The gateway instances: the session's, built with a callback (main.py), and
\* one built with no callback (ConsentManager(), as the tests build it).
Gateways == {"session", "bare"}

\* A callback is a callable: only whether there is one matters to the gateway.
Channel == "channel"

\* Inputs of the calls.
Languages == {"ar", "en", "fr"}
RequestNames == {"github_delete_repo", "wipe_db", "unregistered_action"}
KnownNames == DOMAIN PredefinedActions \cup RequestNames

WarningAr(v) == IF v = 1 THEN "ar: wipe" ELSE "ar: wipe (" \o ToString(v) \o ")"
WarningEn(v) == IF v = 1 THEN "wipe" ELSE "wipe (" \o ToString(v) \o ")"

\* Action objects as a careful caller builds them: a new action at every risk
\* level, and a replacement of a predefined action by one of risk SAFE.
WellFormedInputs ==
    { Action("wipe_db", "Wipe the database", r, WarningAr(v), WarningEn(v)) :
        r \in ActionRisk, v \in 1..MaxVariant }
    \cup
    { Action("github_delete_repo", "Delete a GitHub repository", SAFE,
             WarningAr(v), WarningEn(v)) : v \in 1..MaxVariant }

\* Action objects the dataclass builds just as well: one with an empty name,
\* and one of risk HIGH with no warning text.
UnvalidatedInputs ==
    { Action("", "No name", LOW, WarningAr(1), WarningEn(1)),
      Action("wipe_db", "Wipe the database", HIGH, "", "") }

\* The Action objects handed to register_action.
RegisterInputs == WellFormedInputs \cup UnvalidatedInputs

-----------------------------------------------------------------------------
(* haven/consent/manager.py *)

\* Action.get_warning
Action_get_warning(action, language) ==
    IF language = "ar" THEN action.warning_ar ELSE action.warning_en

\* Variant: a lookup that stores a default entry for a missing key, as
\* dict.setdefault or a defaultdict does.
AfterGet_StoresDefault(action_name) ==
    [n \in DOMAIN Actions \cup {action_name} |->
        IF n \in DOMAIN Actions THEN Actions[n]
        ELSE Action(action_name, "", SAFE, "", "")]

\* The dict after self.ACTIONS.get(action_name): get stores nothing.
AfterGet(action_name) == Actions

\* Variants of requires_consent, each with one plausible slip.
\* An unknown action handled like a registered SAFE one.
requires_consent_UnknownAsSafe(self, action_name) ==
    IF action_name \notin DOMAIN Actions THEN ~auto_approve_safe[self]
    ELSE IF auto_approve_safe[self] /\ Actions[action_name].risk_level = SAFE THEN FALSE
    ELSE TRUE

\* The auto-approval reaching one level too far up the risk order.
requires_consent_LowApproved(self, action_name) ==
    IF action_name \notin DOMAIN Actions THEN FALSE
    ELSE IF auto_approve_safe[self] /\ Actions[action_name].risk_level \in {SAFE, LOW}
         THEN FALSE
    ELSE TRUE

\* auto_approve_safe never consulted.
requires_consent_SafeNeverGated(self, action_name) ==
    IF action_name \notin DOMAIN Actions THEN FALSE
    ELSE IF Actions[action_name].risk_level = SAFE THEN FALSE
    ELSE TRUE

\* Variant: a predefined action of risk above SAFE stays gated whatever is registered later.
requires_consent_SeedStaysGated(self, action_name) ==
    IF action_name \notin DOMAIN Actions THEN FALSE
    ELSE IF action_name \in DOMAIN SeedActions
            /\ SeedActions[action_name].risk_level # SAFE THEN TRUE
    ELSE IF auto_approve_safe[self] /\ Actions[action_name].risk_level = SAFE THEN FALSE
    ELSE TRUE

\* ConsentManager.requires_consent.  self.ACTIONS.get(action_name) is None
\* exactly when action_name is no key of the dict; an Action object is truthy.
requires_consent(self, action_name) ==
    IF action_name \notin DOMAIN Actions THEN FALSE
    ELSE IF auto_approve_safe[self] /\ Actions[action_name].risk_level = SAFE THEN FALSE
    ELSE TRUE

\* Variant: the default returned for every name.
get_action_risk_AlwaysDefault(action_name) == SAFE

\* ConsentManager.get_action_risk
get_action_risk(action_name) ==
    IF action_name \in DOMAIN Actions THEN Actions[action_name].risk_level ELSE SAFE

\* Variant: a placeholder text for an unknown name.
get_warning_Placeholder(action_name, language) ==
    IF action_name \notin DOMAIN Actions THEN "Unknown action"
    ELSE Action_get_warning(Actions[action_name], language)

\* ConsentManager.get_warning
get_warning(action_name, language) ==
    IF action_name \notin DOMAIN Actions THEN ""
    ELSE Action_get_warning(Actions[action_name], language)

\* Variant: the warning rendered in the default language of get_warning.
RenderWarning_DefaultLanguage(action_name, language) == get_warning(action_name, "ar")

\* warning = self.get_warning(action_name, language), in request_consent
RenderWarning(action_name, language) == get_warning(action_name, language)

\* One invocation of the callback: the two arguments it got, and what it gave back.
Prompt(warning, language, answer) ==
    [warning |-> warning, language |-> language, answer |-> answer]

\* Variant: an answer the callback gave in the call just before is used again.
CallbackReturn_Remembered(answer) ==
    IF last.op = "request_consent" /\ last.prompts # <<>> THEN last.returned ELSE answer

\* The value self.callback(warning, language) yields.
CallbackReturn(answer) == answer

\* Variant: with no callback the request is let through.
request_consent_FailOpen(self, action_name, language, answer) ==
    IF ~requires_consent(self, action_name)
    THEN [returned |-> TRUE, rendered |-> <<>>, prompts |-> <<>>]
    ELSE LET warning == RenderWarning(action_name, language) IN
         IF callback[self] = None
         THEN [returned |-> TRUE, rendered |-> <<warning>>, prompts |-> <<>>]
         ELSE [returned |-> CallbackReturn(answer), rendered |-> <<warning>>,
               prompts |-> <<Prompt(warning, language, answer)>>]

\* Variant: the warning is rendered and the callback asked before the check
\* whether consent is required at all.
request_consent_AsksFirst(self, action_name, language, answer) ==
    LET warning == RenderWarning(action_name, language) IN
    IF callback[self] = None
    THEN [returned |-> ~requires_consent(self, action_name),
          rendered |-> <<warning>>, prompts |-> <<>>]
    ELSE [returned |-> IF requires_consent(self, action_name)
                       THEN CallbackReturn(answer) ELSE TRUE,
          rendered |-> <<warning>>,
          prompts |-> <<Prompt(warning, language, answer)>>]

\* ConsentManager.request_consent.  `answer` is what the callback gives back if
\* this call invokes it.  The result: the value returned, the warnings rendered
\* (get_warning calls) and the callback invocations made, in order.
request_consent(self, action_name, language, answer) ==
    IF ~requires_consent(self, action_name)
    THEN [returned |-> TRUE, rendered |-> <<>>, prompts |-> <<>>]
    ELSE LET warning == RenderWarning(action_name, language) IN
         IF callback[self] = None
         THEN [returned |-> FALSE, rendered |-> <<warning>>, prompts |-> <<>>]
         ELSE [returned |-> CallbackReturn(answer), rendered |-> <<warning>>,
               prompts |-> <<Prompt(warning, language, answer)>>]

\* Variant: an Action already stored under the name is changed in place, its
\* risk level set from the new one and its other fields left as they were.
register_action_MergeInPlace(action) ==
    IF action.name \in DOMAIN Actions
    THEN [Actions EXCEPT ![action.name].risk_level = action.risk_level]
    ELSE [n \in DOMAIN Actions \cup {action.name} |->
            IF n = action.name THEN action ELSE Actions[n]]

\* Variant: an existing entry is kept (dict.setdefault).
register_action_KeepExisting(action) ==
    [n \in DOMAIN Actions \cup {action.name} |->
        IF n \in DOMAIN Actions THEN Actions[n] ELSE action]

\* ConsentManager.register_action: the dict after self.ACTIONS[action.name] = action
register_action(action) ==
    [n \in DOMAIN Actions \cup {action.name} |->
        IF n = action.name THEN action ELSE Actions[n]]

-----------------------------------------------------------------------------
(* The record of the most recent call *)

\* No request_consent call was made.
NoRequest == [returned |-> FALSE, rendered |-> <<>>, prompts |-> <<>>]
NoResult == [success |-> FALSE, error |-> None, message |-> None]
\* No Action was handed over.
NoAction == Action("", "", SAFE, "", "")

Call(op, self, action_name, language, requested, req, external, result) ==
    [op |-> op,                    \* the operation called
     self |-> self,                \* the gateway it used, or None
     action_name |-> action_name,
     language |-> language,
     requested |-> requested,      \* request_consent was called
     returned |-> req.returned,    \* what request_consent returned
     rendered |-> req.rendered,
     prompts |-> req.prompts,
     external |-> external,        \* the calls made on the external client, in order
     result |-> result,            \* the dict a service operation returned
     raised |-> FALSE,             \* the call ended in an exception, not a return
     returned_type |-> "bool",     \* type(...) of what request_consent returned
     action |-> NoAction,          \* the Action handed to register_action
     truth |-> FALSE,              \* the bool a read (requires_consent) returned
     value |-> ""]                 \* the str a read (get_action_risk, get_warning) returned

NoCall == Call("none", None, "", "ar", FALSE, NoRequest, <<>>, NoResult)

\* How a direct request_consent call ended, for the call after it to be
\* compared with.
Ended(c) ==
    IF c.op = "request_consent"
    THEN [requested |-> TRUE, self |-> c.self, action_name |-> c.action_name,
          prompted |-> c.prompts # <<>>, returned |-> c.returned]
    ELSE [requested |-> FALSE, self |-> None, action_name |-> "",
          prompted |-> FALSE, returned |-> FALSE]

-----------------------------------------------------------------------------
(* haven/integrations/github_service.py, azure_service.py *)

\* self.consent of a service: the consent_manager its constructor was given,
\* None by default.
ServiceConsents == Gateways \cup {None}

\* Where the external client raises, if it does.
GitHubFaults == {"none", "get_repo", "delete"}
AzureFaults == {"none", "begin_delete"}

DeniedEn == "User denied consent"
DeniedAr == "ar: User denied consent"

\* Variant: the language test of Action.get_warning used for the denial.
Denied_EnglishFallback(language) ==
    [success |-> FALSE, error |-> IF language = "ar" THEN DeniedAr ELSE DeniedEn,
     message |-> None]

\* The dict returned when consent is denied.
Denied(language) ==
    [success |-> FALSE, error |-> IF language = "en" THEN DeniedEn ELSE DeniedAr,
     message |-> None]

\* `if self.consent and not self.consent.request_consent(action_name, language)`:
\* whether request_consent is called, what it did, and whether the branch is taken.
CheckConsent(consent, action_name, language, answer) ==
    IF consent = None
    THEN [requested |-> FALSE, request |-> NoRequest, denied |-> FALSE]
    ELSE LET req == request_consent(consent, action_name, language, answer) IN
         [requested |-> TRUE, request |-> req, denied |-> ~req.returned]

\* GitHubService.delete_repository
delete_repository(consent, language, answer, raises) ==
    LET check == CheckConsent(consent, "github_delete_repo", language, answer) IN
    IF check.denied
    THEN [requested |-> check.requested, request |-> check.request,
          external |-> <<>>, result |-> Denied(language)]
    ELSE [requested |-> check.requested, request |-> check.request,
          external |-> IF raises = "get_repo" THEN <<"get_repo">>
                       ELSE <<"get_repo", "delete">>,
          result |-> IF raises = "none"
                     THEN [success |-> TRUE, error |-> None, message |-> None]
                     ELSE [success |-> FALSE, error |-> "GithubException",
                           message |-> None]]

\* AzureService.delete_resource_group
delete_resource_group(consent, language, answer, raises) ==
    LET check == CheckConsent(consent, "azure_delete_resource", language, answer) IN
    IF check.denied
    THEN [requested |-> check.requested, request |-> check.request,
          external |-> <<>>, result |-> Denied(language)]
    ELSE [requested |-> check.requested, request |-> check.request,
          external |-> <<"begin_delete">>,
          result |-> IF raises = "none"
                     THEN [success |-> TRUE, error |-> None,
                           message |-> IF language = "en" THEN "Deletion started"
                                       ELSE "ar: Deletion started"]
                     ELSE [success |-> FALSE, error |-> "Exception", message |-> None]]

-----------------------------------------------------------------------------
(* The operations *)

ChannelAnswers == BOOLEAN

\* What a callable given as callback may do when called: return a bool, return
\* a value of another type (None is falsy, a non-empty str truthy), or raise.
ChannelBehaviours ==
    { [kind |-> "bool", truth |-> b] : b \in BOOLEAN }
    \cup { [kind |-> "NoneType", truth |-> FALSE], [kind |-> "str", truth |-> TRUE],
           [kind |-> "raises", truth |-> FALSE] }

\* ConsentManager.request_consent with any callable as callback: line 148
\* returns whatever the callback yields, as it is, and nothing catches an
\* exception of the callback.  On the other paths the literals True and False
\* are returned.
request_consent_any(self, action_name, language, behaviour) ==
    LET req == request_consent(self, action_name, language, behaviour.truth) IN
    IF req.prompts = <<>>
    THEN [req |-> req, raised |-> FALSE, returned_type |-> "bool"]
    ELSE IF behaviour.kind = "raises"
         THEN [req |-> req, raised |-> TRUE, returned_type |-> "none returned"]
         ELSE [req |-> req, raised |-> FALSE, returned_type |-> behaviour.kind]

-----------------------------------------------------------------------------
(* The relational store (haven/memory/manager.py) and the workspace on top *)
(* of it (haven/workspace/manager.py)                                      *)

\* The largest primary key a table hands out here.
MaxId == 2

\* The most rows the tasks and notes tables hold together here.
MaxRows == 2

\* The usernames: the default of WorkspaceManager, and another user of the same store.
Users == {"default", "guest"}

\* The title a task is created with.
TaskTitles == {"Task 1"}

\* The title and content a note is created with or updated to.
NoteTexts == { <<"Note 1", "Content 1">>, <<"Note 2", "Content 2">> }

\* The ids handed to the operations: a table holds some of them at a time, seldom all.
Ids == 1..MaxId

\* A row of the tasks table.  user_id is written as the username it stands
\* for (users.username is unique); completed has the column default False.
Task(id, user_id, title, completed) ==
    [id |-> id, user_id |-> user_id, title |-> title, completed |-> completed]

\* A row of the notes table.
Note(id, user_id, title, content) ==
    [id |-> id, user_id |-> user_id, title |-> title, content |-> content]

\* The store after Base.metadata.create_all on a new database.
EmptyStore ==
    [tasks |-> {}, notes |-> {}, preferences |-> {}, conversations |-> <<>>, now |-> 0]

\* The primary key an insert gets: one more than the largest in the table
\* (an INTEGER PRIMARY KEY of SQLite, the default database).
NextId(rows) ==
    IF rows = {} THEN 1
    ELSE (CHOOSE i \in {r.id : r \in rows} : \A r \in rows : r.id <= i) + 1

\* MemoryManager.create_task: the store after the commit.
MemoryManager_create_task(username, title) ==
    [db EXCEPT !.tasks = @ \cup {Task(NextId(db.tasks), username, title, FALSE)}]

\* Variant: no filter on the user.
MemoryManager_get_tasks_AllUsers(username) == db.tasks

\* MemoryManager.get_tasks(username): the rows of the user, as a set (the
\* order of the list is not modelled).
MemoryManager_get_tasks(username) ==
    {t \in db.tasks : t.user_id = username}

\* MemoryManager.get_tasks(username, completed=completed), completed a bool.
MemoryManager_get_tasks_filtered(username, completed) ==
    {t \in db.tasks : t.user_id = username /\ t.completed = completed}

\* Variant: the task is marked completed, not flipped.
MemoryManager_toggle_task_MarksCompleted(username, task_id) ==
    [db EXCEPT !.tasks =
        { IF t.id = task_id /\ t.user_id = username
          THEN [t EXCEPT !.completed = TRUE] ELSE t : t \in @ }]

\* MemoryManager.toggle_task: the store after it.
MemoryManager_toggle_task(username, task_id) ==
    [db EXCEPT !.tasks =
        { IF t.id = task_id /\ t.user_id = username
          THEN [t EXCEPT !.completed = ~@] ELSE t : t \in @ }]

\* Variant: the row is deleted whoever owns it.
MemoryManager_delete_task_AnyOwner(username, task_id) ==
    [db EXCEPT !.tasks = {t \in @ : t.id # task_id}]

\* MemoryManager.delete_task: the store after it.
MemoryManager_delete_task(username, task_id) ==
    [db EXCEPT !.tasks = {t \in @ : ~(t.id = task_id /\ t.user_id = username)}]

\* MemoryManager.create_note: the store after the commit.
MemoryManager_create_note(username, title, content) ==
    [db EXCEPT !.notes = @ \cup {Note(NextId(db.notes), username, title, content)}]

\* MemoryManager.get_notes(username), without a search term.
MemoryManager_get_notes(username) ==
    {n \in db.notes : n.user_id = username}

\* MemoryManager.update_note: the store after it.
MemoryManager_update_note(username, note_id, title, content) ==
    [db EXCEPT !.notes =
        { IF n.id = note_id /\ n.user_id = username
          THEN [n EXCEPT !.title = title, !.content = content] ELSE n : n \in @ }]

\* MemoryManager.delete_note: the store after it.
MemoryManager_delete_note(username, note_id) ==
    [db EXCEPT !.notes = {n \in @ : ~(n.id = note_id /\ n.user_id = username)}]

\* try: <store operation>; return True / except Exception: return False.
\* A store operation that raises has not committed.
Guarded(after, raises) ==
    IF raises THEN [db |-> db, returned |-> FALSE]
    ELSE [db |-> after, returned |-> TRUE]

\* WorkspaceManager.toggle_task, self being the username of the workspace.
WorkspaceManager_toggle_task(self, task_id, raises) ==
    Guarded(MemoryManager_toggle_task(self, task_id), raises)

\* WorkspaceManager.delete_task
WorkspaceManager_delete_task(self, task_id, raises) ==
    Guarded(MemoryManager_delete_task(self, task_id), raises)

\* WorkspaceManager.update_note
WorkspaceManager_update_note(self, note_id, title, content, raises) ==
    Guarded(MemoryManager_update_note(self, note_id, title, content), raises)

\* WorkspaceManager.delete_note
WorkspaceManager_delete_note(self, note_id, raises) ==
    Guarded(MemoryManager_delete_note(self, note_id), raises)

\* WorkspaceManager.list_tasks
WorkspaceManager_list_tasks(self, show_completed) ==
    IF show_completed THEN MemoryManager_get_tasks(self)
    ELSE MemoryManager_get_tasks_filtered(self, FALSE)

\* WorkspaceManager.get_stats.  completion_rate, a float, is left out.
WorkspaceManager_get_stats(self) ==
    LET notes == MemoryManager_get_notes(self)
        all_tasks == MemoryManager_get_tasks(self)
        pending_tasks == {t \in all_tasks : ~t.completed}
        completed_tasks == {t \in all_tasks : t.completed}
    IN  [total_notes |-> Cardinality(notes),
         total_tasks |-> Cardinality(all_tasks),
         pending_tasks |-> Cardinality(pending_tasks),
         completed_tasks |-> Cardinality(completed_tasks)]

\* No statistics were asked for.
NoStats == [total_notes |-> 0, total_tasks |-> 0, pending_tasks |-> 0, completed_tasks |-> 0]

\* The record of a call on the store or the workspace.
NoReply ==
    [op |-> "none",        \* the operation called
     username |-> "",       \* the user it was called for
     id |-> 0,              \* the id handed over, or the id a create returned
     returned |-> FALSE,    \* the bool returned
     raised |-> FALSE,      \* the store raised
     stats |-> NoStats,     \* the dict get_stats returned
     listed |-> {},         \* the rows list_tasks returned
     key |-> "",
     value |-> None,        \* the str get_preference returned, or None
     limit |-> 0,
     history |-> <<>>]      \* the list get_conversation_history returned

\* The record of a call of `op` for `username` with `id`.
Reply(op, username, id) == [NoReply EXCEPT !.op = op, !.username = username, !.id = id]

\* The preference keys and values used here.
Keys == {"language", "theme"}

Values == {"ar", "en"}

\* A row of the user_preferences table.
UserPreference(id, user_id, key, value) ==
    [id |-> id, user_id |-> user_id, key |-> key, value |-> value]

\* session.query(UserPreference).filter(user_id == ..., key == ...): the rows that match.
PreferenceRows(username, key) ==
    {r \in db.preferences : r.user_id = username /\ r.key = key}

\* .first() on those rows, there being one: without ORDER BY the store gives
\* the row of the lowest id.
FirstRow(rows) == CHOOSE r \in rows : \A q \in rows : r.id <= q.id

\* Variant: a row is inserted on every call.
MemoryManager_set_preference_AlwaysInserts(username, key, value) ==
    [db EXCEPT !.preferences =
        @ \cup {UserPreference(NextId(db.preferences), username, key, value)}]

\* MemoryManager.set_preference: the store after the commit.
MemoryManager_set_preference(username, key, value) ==
    LET rows == PreferenceRows(username, key) IN
    IF rows # {}
    THEN [db EXCEPT !.preferences =
            (@ \ {FirstRow(rows)}) \cup {[FirstRow(rows) EXCEPT !.value = value]}]
    ELSE [db EXCEPT !.preferences =
            @ \cup {UserPreference(NextId(db.preferences), username, key, value)}]

\* MemoryManager.get_preference: pref.value if pref else None
MemoryManager_get_preference(username, key) ==
    LET rows == PreferenceRows(username, key) IN
    IF rows # {} THEN FirstRow(rows).value ELSE None

\* The most messages the conversations table holds here.
MaxMessages == 3

\* A row of the conversations table.  content stands for the text: it is the
\* number of the message in the order of the calls, so that no two are alike.
Conversation(user_id, content, created_at) ==
    [user_id |-> user_id, content |-> content, created_at |-> created_at]

\* MemoryManager.add_conversation: the store after the commit, created_at being
\* what datetime.utcnow gave for the column default.
MemoryManager_add_conversation(username, content, created_at) ==
    [db EXCEPT !.conversations = Append(@, Conversation(username, content, created_at)),
               !.now = created_at]

\* The smaller of two numbers.
Min(a, b) == IF a <= b THEN a ELSE b

\* The positions in the table of the rows of a user.
ConversationsOf(username) ==
    {i \in 1..Len(db.conversations) : db.conversations[i].user_id = username}

\* ORDER BY created_at DESC over the rows of a user: every order the store may
\* give them in, rows of equal created_at coming in any order.
NewestFirst(username) ==
    LET rows == ConversationsOf(username)
        n == Cardinality(rows)
    IN  { o \in [1..n -> rows] :
            /\ \A i, j \in 1..n : i # j => o[i] # o[j]
            /\ \A i, j \in 1..n :
                i < j => db.conversations[o[i]].created_at
                            >= db.conversations[o[j]].created_at }

\* MemoryManager.get_conversation_history: the lists it may return, each the
\* first `limit` rows of one such order, reversed.
MemoryManager_get_conversation_history(username, limit) ==
    LET taken == Min(limit, Cardinality(ConversationsOf(username)))
    IN  { [k \in 1..taken |-> db.conversations[o[taken + 1 - k]].content] :
            o \in NewestFirst(username) }

\* The threads that may be inside request_consent at the same time.
Threads == {"t1", "t2"}

\* A thread outside request_consent that has not called it yet: no locals.
\* `held` is the Action the latest self.ACTIONS.get gave the thread, `decided`
\* the one requires_consent looked at when it found consent required.
Idle ==
    [pc |-> "Idle", self |-> None, action_name |-> "", language |-> "ar",
     decided |-> NoAction, held |-> NoAction, warning |-> "", answer |-> FALSE,
     returned |-> FALSE]

\* A thread whose call has returned: the way it ended, the answer its own
\* callback invocation got (FALSE when there was none), and the value returned.
Returned(pc, answer, returned) ==
    [Idle EXCEPT !.pc = pc, !.answer = answer, !.returned = returned]

\* The states in which a thread is not inside request_consent.
Resting == {"Idle", "AutoApproved", "NoChannelDenied", "Approved", "Denied"}

\* self.ACTIONS.get(action_name): the Action object the dict holds, or NoAction for None.
Fetch(action_name) ==
    IF action_name \in DOMAIN Actions THEN Actions[action_name] ELSE NoAction

\* Variant: one prompt at a time, a lock held around the callback.
ChannelFree_OnePromptAtATime(t) ==
    \A u \in Threads \ {t} : threads[u].pc # "AwaitingChannel"

\* What thread t waits for before it calls self.callback: nothing, request_consent takes no lock.
ChannelFree(t) == TRUE

\* The Action objects other threads register while requests are running: they
\* move a requested name across the consent threshold, in both directions.
ConcurrentInputs ==
    { a \in WellFormedInputs : a.risk_level \in {SAFE, CRITICAL} }

Init ==
    /\ Actions = PredefinedActions
    /\ callback = [g \in Gateways |-> IF g = "session" THEN Channel ELSE None]
    /\ auto_approve_safe = [g \in Gateways |-> TRUE]
    /\ last = NoCall
    /\ previous = Ended(NoCall)
    /\ threads = [t \in Threads |-> Idle]
    /\ db = EmptyStore
    /\ reply = NoReply

\* consent.request_consent(action_name, language)
RequestConsent ==
    \E self \in Gateways, action_name \in RequestNames, language \in Languages,
       answer \in ChannelAnswers :
        /\ last' = Call("request_consent", self, action_name, language, TRUE,
                        request_consent(self, action_name, language, answer),
                        <<>>, NoResult)
        /\ previous' = Ended(last)
        /\ UNCHANGED <<Actions, callback, auto_approve_safe, threads, db, reply>>

\* consent.request_consent(action_name, language), the callback being any callable
RequestConsentAnyChannel ==
    \E self \in Gateways, action_name \in RequestNames, language \in Languages,
       behaviour \in ChannelBehaviours :
        LET r == request_consent_any(self, action_name, language, behaviour) IN
        /\ last' = [Call("request_consent", self, action_name, language, TRUE,
                         r.req, <<>>, NoResult)
                        EXCEPT !.raised = r.raised, !.returned_type = r.returned_type]
        /\ previous' = Ended(last)
        /\ UNCHANGED <<Actions, callback, auto_approve_safe, threads, db, reply>>

\* A read of the gateway: its effect on the state, `value` being what it returned.
Read(op, self, action_name, language, truth, value) ==
    /\ Actions' = AfterGet(action_name)
    /\ last' = [Call(op, self, action_name, language, FALSE, NoRequest, <<>>, NoResult)
                    EXCEPT !.truth = truth, !.value = value]
    /\ previous' = Ended(last)
    /\ UNCHANGED <<callback, auto_approve_safe, threads, db, reply>>

\* consent.requires_consent(action_name)
RequiresConsent ==
    \E self \in Gateways, action_name \in RequestNames :
        Read("requires_consent", self, action_name, "ar",
             requires_consent(self, action_name), "")

\* consent.get_action_risk(action_name)
GetActionRisk ==
    \E self \in Gateways, action_name \in RequestNames :
        Read("get_action_risk", self, action_name, "ar", FALSE,
             get_action_risk(action_name))

\* consent.get_warning(action_name, language)
GetWarning ==
    \E self \in Gateways, action_name \in RequestNames, language \in Languages :
        Read("get_warning", self, action_name, language, FALSE,
             get_warning(action_name, language))

\* consent.register_action(action)
RegisterAction ==
    \E self \in Gateways, action \in RegisterInputs :
        /\ Actions' = register_action(action)
        /\ last' = [Call("register_action", self, action.name, "ar", FALSE,
                         NoRequest, <<>>, NoResult) EXCEPT !.action = action]
        /\ previous' = Ended(last)
        /\ UNCHANGED <<callback, auto_approve_safe, threads, db, reply>>

\* consent.auto_approve_safe = value: the policy configuration of one instance
SetAutoApproveSafe ==
    \E self \in Gateways, value \in BOOLEAN :
        /\ auto_approve_safe[self] # value
        /\ auto_approve_safe' = [auto_approve_safe EXCEPT ![self] = value]
        /\ last' = Call("auto_approve_safe", self, "", "ar", FALSE,
                        NoRequest, <<>>, NoResult)
        /\ previous' = Ended(last)
        /\ UNCHANGED <<Actions, callback, threads, db, reply>>

\* github.delete_repository(repo_name, language)
DeleteRepository ==
    \E consent \in ServiceConsents, language \in Languages,
       answer \in ChannelAnswers, raises \in GitHubFaults :
        LET r == delete_repository(consent, language, answer, raises) IN
        /\ last' = Call("delete_repository", consent, "github_delete_repo", language,
                        r.requested,
                        r.request, r.external, r.result)
        /\ previous' = Ended(last)
        /\ UNCHANGED <<Actions, callback, auto_approve_safe, threads, db, reply>>

\* azure.delete_resource_group(name, language)
DeleteResourceGroup ==
    \E consent \in ServiceConsents, language \in Languages,
       answer \in ChannelAnswers, raises \in AzureFaults :
        LET r == delete_resource_group(consent, language, answer, raises) IN
        /\ last' = Call("delete_resource_group", consent, "azure_delete_resource", language,
                        r.requested,
                        r.request, r.external, r.result)
        /\ previous' = Ended(last)
        /\ UNCHANGED <<Actions, callback, auto_approve_safe, threads, db, reply>>

\* The consent gateway and its callers.
Next ==
    \/ RequestConsent
    \/ RegisterAction
    \/ SetAutoApproveSafe

Spec == Init /\ [][Next]_vars

\* The integration services, which reach the gateway through their operations.
NextServices ==
    \/ DeleteRepository
    \/ DeleteResourceGroup
    \/ RegisterAction
    \/ SetAutoApproveSafe

SpecServices == Init /\ [][NextServices]_vars

\* The gateway with a callback that is any callable.
NextAnyChannel ==
    \/ RequestConsentAnyChannel
    \/ RegisterAction
    \/ SetAutoApproveSafe

SpecAnyChannel == Init /\ [][NextAnyChannel]_vars

\* The reads of the gateway, between registrations and policy changes.
NextReads ==
    \/ RequiresConsent
    \/ GetActionRisk
    \/ GetWarning
    \/ RegisterAction
    \/ SetAutoApproveSafe

SpecReads == Init /\ [][NextReads]_vars

-----------------------------------------------------------------------------
(* Gateway instances created while the process runs *)

\* The callbacks an instance is constructed with.
Callbacks == {None, Channel}

\* Variant: __init__ gives the instance a fresh dict of the predefined actions.
InitRegistry_Reseeded == PredefinedActions

\* ConsentManager.ACTIONS after __init__: the class-level dict, which __init__ does not assign.
InitRegistry == Actions

\* Variant: auto_approve_safe kept on the class, one value for all instances.
init_auto_approve_safe_ClassLevel(self) == [g \in Gateways |-> TRUE]

\* self.auto_approve_safe = True in __init__: the attribute of this instance only.
init_auto_approve_safe(self) == [auto_approve_safe EXCEPT ![self] = TRUE]

\* consent = ConsentManager(callback=cb): a new instance takes the place of `self`.
Construct ==
    \E self \in Gateways, cb \in Callbacks :
        /\ callback' = [callback EXCEPT ![self] = cb]
        /\ auto_approve_safe' = init_auto_approve_safe(self)
        /\ Actions' = InitRegistry
        /\ last' = Call("__init__", self, "", "ar", FALSE, NoRequest, <<>>, NoResult)
        /\ previous' = Ended(last)
        /\ UNCHANGED <<threads, db, reply>>

\* consent.register_action(action), for the actions that move a name across the
\* consent threshold.
RegisterAcrossThreshold ==
    \E self \in Gateways, action \in ConcurrentInputs :
        /\ Actions' = register_action(action)
        /\ last' = [Call("register_action", self, action.name, "ar", FALSE,
                         NoRequest, <<>>, NoResult) EXCEPT !.action = action]
        /\ previous' = Ended(last)
        /\ UNCHANGED <<callback, auto_approve_safe, threads, db, reply>>

\* Instances created, configured and used in any order.
NextInstances ==
    \/ Construct
    \/ RequestConsent
    \/ RegisterAcrossThreshold
    \/ SetAutoApproveSafe

SpecInstances == Init /\ [][NextInstances]_vars

-----------------------------------------------------------------------------
(* request_consent statement by statement, run by several threads *)

\* A thread calls consent.request_consent(action_name, language).
EnterBy(t) ==
    /\ threads[t].pc \in Resting
    /\ \E self \in Gateways, action_name \in RequestNames, language \in Languages :
        threads' = [threads EXCEPT ![t] =
            [Idle EXCEPT !.pc = "Evaluating", !.self = self,
                         !.action_name = action_name, !.language = language]]
    /\ UNCHANGED <<Actions, callback, auto_approve_safe, last, previous, db, reply>>

\* if not self.requires_consent(action_name): return True
EvaluateBy(t) ==
    LET c == threads[t] IN
    /\ c.pc = "Evaluating"
    /\ threads' = [threads EXCEPT ![t] =
            IF ~requires_consent(c.self, c.action_name)
            THEN Returned("AutoApproved", FALSE, TRUE)
            ELSE [c EXCEPT !.pc = "Rendering", !.held = Fetch(c.action_name),
                           !.decided = Fetch(c.action_name)]]
    /\ UNCHANGED <<Actions, callback, auto_approve_safe, last, previous, db, reply>>

\* Variant: the callback is called without the check that there is one.
RenderBy_ChannelAssumed(t) ==
    LET c == threads[t] IN
    /\ c.pc = "Rendering"
    /\ threads' = [threads EXCEPT ![t] =
            [c EXCEPT !.pc = "AwaitingChannel", !.held = Fetch(c.action_name),
                      !.warning = RenderWarning(c.action_name, c.language)]]
    /\ UNCHANGED <<Actions, callback, auto_approve_safe, last, previous, db, reply>>

\* warning = self.get_warning(action_name, language); without a callback
\* return False, else call self.callback(warning, language).
RenderBy(t) ==
    LET c == threads[t] IN
    /\ c.pc = "Rendering"
    /\ \/ /\ callback[c.self] = None
          /\ threads' = [threads EXCEPT ![t] = Returned("NoChannelDenied", FALSE, FALSE)]
       \/ /\ callback[c.self] # None
          /\ ChannelFree(t)
          /\ threads' = [threads EXCEPT ![t] =
                [c EXCEPT !.pc = "AwaitingChannel", !.held = Fetch(c.action_name),
                          !.warning = RenderWarning(c.action_name, c.language)]]
    /\ UNCHANGED <<Actions, callback, auto_approve_safe, last, previous, db, reply>>

\* The callback invocation of thread t returns, and request_consent returns its value.
AnswerBy(t) ==
    /\ threads[t].pc = "AwaitingChannel"
    /\ \E answer \in ChannelAnswers :
        threads' = [threads EXCEPT ![t] =
            Returned(IF CallbackReturn(answer) THEN "Approved" ELSE "Denied",
                     answer, CallbackReturn(answer))]
    /\ UNCHANGED <<Actions, callback, auto_approve_safe, last, previous, db, reply>>

Enter == \E t \in Threads : EnterBy(t)

Evaluate == \E t \in Threads : EvaluateBy(t)

Render == \E t \in Threads : RenderBy(t)

Answer == \E t \in Threads : AnswerBy(t)

\* Another thread runs consent.register_action(action) meanwhile.
ConcurrentRegister ==
    \E action \in ConcurrentInputs :
        /\ Actions' = register_action(action)
        /\ UNCHANGED <<callback, auto_approve_safe, last, previous, threads, db, reply>>

\* Threads inside request_consent, and registrations between their statements.
NextConcurrent ==
    \/ Enter
    \/ Evaluate
    \/ Render
    \/ Answer
    \/ ConcurrentRegister

SpecConcurrent == Init /\ [][NextConcurrent]_vars

-----------------------------------------------------------------------------
(* The workspace of each user *)

\* workspace.create_task(title)
CreateTask ==
    \E self \in Users, title \in TaskTitles :
        /\ NextId(db.tasks) <= MaxId
        /\ Cardinality(db.tasks) + Cardinality(db.notes) < MaxRows
        /\ db' = MemoryManager_create_task(self, title)
        /\ reply' = Reply("create_task", self, NextId(db.tasks))
        /\ UNCHANGED consentVars

\* workspace.toggle_task(task_id)
ToggleTask ==
    \E self \in Users, task_id \in Ids, raises \in BOOLEAN :
        LET r == WorkspaceManager_toggle_task(self, task_id, raises) IN
        /\ db' = r.db
        /\ reply' = [Reply("toggle_task", self, task_id)
                        EXCEPT !.returned = r.returned, !.raised = raises]
        /\ UNCHANGED consentVars

\* workspace.delete_task(task_id)
DeleteTask ==
    \E self \in Users, task_id \in Ids, raises \in BOOLEAN :
        LET r == WorkspaceManager_delete_task(self, task_id, raises) IN
        /\ db' = r.db
        /\ reply' = [Reply("delete_task", self, task_id)
                        EXCEPT !.returned = r.returned, !.raised = raises]
        /\ UNCHANGED consentVars

\* workspace.create_note(title, content)
CreateNote ==
    \E self \in Users, text \in NoteTexts :
        /\ NextId(db.notes) <= MaxId
        /\ Cardinality(db.tasks) + Cardinality(db.notes) < MaxRows
        /\ db' = MemoryManager_create_note(self, text[1], text[2])
        /\ reply' = Reply("create_note", self, NextId(db.notes))
        /\ UNCHANGED consentVars

\* workspace.update_note(note_id, title, content)
UpdateNote ==
    \E self \in Users, note_id \in Ids, text \in NoteTexts, raises \in BOOLEAN :
        LET r == WorkspaceManager_update_note(self, note_id, text[1], text[2], raises) IN
        /\ db' = r.db
        /\ reply' = [Reply("update_note", self, note_id)
                        EXCEPT !.returned = r.returned, !.raised = raises]
        /\ UNCHANGED consentVars

\* workspace.delete_note(note_id)
DeleteNote ==
    \E self \in Users, note_id \in Ids, raises \in BOOLEAN :
        LET r == WorkspaceManager_delete_note(self, note_id, raises) IN
        /\ db' = r.db
        /\ reply' = [Reply("delete_note", self, note_id)
                        EXCEPT !.returned = r.returned, !.raised = raises]
        /\ UNCHANGED consentVars

\* workspace.list_tasks(show_completed)
ListTasks ==
    \E self \in Users, show_completed \in BOOLEAN :
        /\ reply' = [Reply("list_tasks", self, 0)
                        EXCEPT !.returned = show_completed,
                               !.listed = WorkspaceManager_list_tasks(self, show_completed)]
        /\ UNCHANGED <<db, consentVars>>

\* workspace.get_stats()
GetStats ==
    \E self \in Users :
        /\ reply' = [Reply("get_stats", self, 0)
                        EXCEPT !.stats = WorkspaceManager_get_stats(self)]
        /\ UNCHANGED <<db, consentVars>>

\* The tasks of the users.
NextTasks ==
    \/ CreateTask
    \/ ToggleTask
    \/ DeleteTask
    \/ ListTasks

SpecTasks == Init /\ [][NextTasks]_vars

\* The workspaces of the users over one store: tasks, notes and statistics.
NextWorkspace ==
    \/ CreateTask
    \/ ToggleTask
    \/ DeleteTask
    \/ CreateNote
    \/ UpdateNote
    \/ DeleteNote
    \/ GetStats

SpecWorkspace == Init /\ [][NextWorkspace]_vars

-----------------------------------------------------------------------------
(* Preferences and conversation history *)

\* memory.set_preference(username, key, value)
SetPreference ==
    \E username \in Users, key \in Keys, value \in Values :
        /\ db' = MemoryManager_set_preference(username, key, value)
        /\ reply' = [Reply("set_preference", username, 0)
                        EXCEPT !.key = key, !.value = value]
        /\ UNCHANGED consentVars

\* memory.get_preference(username, key)
GetPreference ==
    \E username \in Users, key \in Keys :
        /\ reply' = [Reply("get_preference", username, 0)
                        EXCEPT !.key = key,
                               !.value = MemoryManager_get_preference(username, key)]
        /\ UNCHANGED <<db, consentVars>>

NextPreferences ==
    \/ SetPreference
    \/ GetPreference

SpecPreferences == Init /\ [][NextPreferences]_vars

\* memory.add_conversation(username, role, content), at the same reading of the
\* clock as the message before or at a later one.
AddConversation ==
    \E username \in Users, created_at \in {db.now, db.now + 1} :
        /\ Len(db.conversations) < MaxMessages
        /\ db' = MemoryManager_add_conversation(username, Len(db.conversations) + 1,
                                                created_at)
        /\ reply' = Reply("add_conversation", username, Len(db.conversations) + 1)
        /\ UNCHANGED consentVars

\* memory.get_conversation_history(username, limit)
GetConversationHistory ==
    \E username \in Users, limit \in 0..MaxMessages :
        \E history \in MemoryManager_get_conversation_history(username, limit) :
            /\ reply' = [Reply("get_conversation_history", username, 0)
                            EXCEPT !.limit = limit, !.history = history]
            /\ UNCHANGED <<db, consentVars>>

NextHistory ==
    \/ AddConversation
    \/ GetConversationHistory

SpecHistory == Init /\ [][NextHistory]_vars

-----------------------------------------------------------------------------
(* Properties *)

\* The most recent call was a request_consent call on gateway `self`.
Requested == last.op = "request_consent"

\* C1: on a gateway with a callback, a request_consent call for an action that
\* requires consent invokes the callback and returns the answer given in that
\* very call, whatever earlier calls were answered.
C1_ReturnsThisAnswer ==
    (Requested /\ callback[last.self] # None
        /\ requires_consent(last.self, last.action_name)) =>
            /\ Len(last.prompts) = 1
            /\ last.returned = last.prompts[1].answer

\* C1 witness: the same action on the same gateway was denied in one call and
\* approved in the next one: false, then true.
C1_Witness ==
    /\ Requested /\ callback[last.self] # None
    /\ requires_consent(last.self, last.action_name)
    /\ previous.prompted /\ ~previous.returned
    /\ previous.self = last.self /\ previous.action_name = last.action_name
    /\ last.prompts[1].answer /\ last.returned

\* C2: on a gateway with no callback, request_consent returns FALSE for every
\* action that requires consent and TRUE for every action that does not,
\* unregistered ones included.
C2_NoChannelDenies ==
    (Requested /\ callback[last.self] = None) =>
        last.returned = ~requires_consent(last.self, last.action_name)

\* C2 witness: on a gateway with no callback an unregistered action was let
\* through and then, after registrations, a registered one was refused.
C2_Witness ==
    /\ Requested /\ callback[last.self] = None
    /\ requires_consent(last.self, last.action_name) /\ ~last.returned
    /\ previous.requested /\ previous.self = last.self
    /\ previous.action_name \notin DOMAIN Actions /\ previous.returned
    /\ "wipe_db" \in DOMAIN Actions

\* C3 as stated: the callback is invoked exactly once by a call when consent
\* is required and never otherwise; on the auto-approve path nothing is
\* rendered and TRUE is returned.
C3_OncePerRequiredCall ==
    Requested =>
        IF requires_consent(last.self, last.action_name)
        THEN Len(last.prompts) = 1
        ELSE last.prompts = <<>> /\ last.rendered = <<>> /\ last.returned

\* C3 amended: the callback is invoked exactly once by a call when consent is
\* required and the gateway has a callback, and never otherwise; on the
\* auto-approve path nothing is rendered and TRUE is returned.
C3_OncePerRequiredCallWithChannel ==
    Requested =>
        IF requires_consent(last.self, last.action_name)
        THEN Len(last.prompts) = (IF callback[last.self] # None THEN 1 ELSE 0)
        ELSE last.prompts = <<>> /\ last.rendered = <<>> /\ last.returned

\* C3 witness: a registered SAFE action went through on the auto-approve path
\* of a gateway that has a callback, right after a call that did ask.
C3_Witness ==
    /\ Requested /\ callback[last.self] # None
    /\ last.action_name \in DOMAIN Actions
    /\ ~requires_consent(last.self, last.action_name)
    /\ last.returned /\ last.prompts = <<>>
    /\ previous.prompted

\* C6: an action name that is no key of the registry never requires consent
\* and has risk SAFE, on every gateway and for either value of
\* auto_approve_safe.
C6_UnknownIsSafe ==
    \A n \in KnownNames \ DOMAIN Actions :
        /\ get_action_risk(n) = SAFE
        /\ \A g \in Gateways : ~requires_consent(g, n)

\* C6 witness: after a registration, with auto_approve_safe switched off on a
\* gateway, some name is still unregistered.
C6_Witness ==
    /\ Actions # PredefinedActions
    /\ \E g \in Gateways : ~auto_approve_safe[g]
    /\ \E g \in Gateways : auto_approve_safe[g]
    /\ "wipe_db" \notin DOMAIN Actions

\* C7: a registered action whose risk is not SAFE requires consent on every
\* gateway, whatever auto_approve_safe is.
C7_RiskyRequiresConsent ==
    \A n \in DOMAIN Actions :
        Actions[n].risk_level # SAFE => \A g \in Gateways : requires_consent(g, n)

\* C7 witness: an action registered at run time with risk LOW, one gateway
\* with auto_approve_safe on and one with it off.
C7_Witness ==
    /\ "wipe_db" \in DOMAIN Actions /\ Actions["wipe_db"].risk_level = LOW
    /\ \E g \in Gateways : ~auto_approve_safe[g]
    /\ \E g \in Gateways : auto_approve_safe[g]

\* C8: a registered action of risk SAFE requires consent exactly on the
\* gateways whose auto_approve_safe is off.
C8_SafeFollowsAutoApprove ==
    \A n \in DOMAIN Actions :
        Actions[n].risk_level = SAFE =>
            \A g \in Gateways : requires_consent(g, n) = ~auto_approve_safe[g]

\* C8 witness: a registered SAFE action is gated on a gateway with
\* auto_approve_safe off, not gated on the other gateway, and an unregistered
\* name is not gated on either.
C8_Witness ==
    /\ "github_delete_repo" \in DOMAIN Actions
    /\ Actions["github_delete_repo"].risk_level = SAFE
    /\ \E g \in Gateways :
        ~auto_approve_safe[g] /\ requires_consent(g, "github_delete_repo")
    /\ \E g \in Gateways :
        auto_approve_safe[g] /\ ~requires_consent(g, "github_delete_repo")
    /\ "wipe_db" \notin DOMAIN Actions
    /\ \A g \in Gateways : ~requires_consent(g, "wipe_db")

\* C9 as stated: get_warning gives the Arabic text for "ar", the English text
\* for "en" and the Arabic text for every other language, and so does the
\* text request_consent renders.
C9_ArabicFallback ==
    /\ \A n \in DOMAIN Actions : \A l \in Languages :
        get_warning(n, l) =
            (IF l = "en" THEN Actions[n].warning_en ELSE Actions[n].warning_ar)
    /\ (Requested /\ last.rendered # <<>>) =>
        last.rendered[1] =
            (IF last.language = "en" THEN Actions[last.action_name].warning_en
             ELSE Actions[last.action_name].warning_ar)

\* C10: when request_consent invokes the callback, the callback gets
\* get_warning(action_name, language) of the registry as it is, and the
\* language it was called with.
C10_ChannelArguments ==
    (Requested /\ last.prompts # <<>>) =>
        /\ last.prompts[1].warning = get_warning(last.action_name, last.language)
        /\ last.prompts[1].language = last.language

\* C10 witness: wipe_db registered as CRITICAL, then requested in English: the
\* callback got the English warning and "en".
C10_Witness ==
    /\ Requested /\ last.action_name = "wipe_db" /\ last.language = "en"
    /\ "wipe_db" \in DOMAIN Actions /\ Actions["wipe_db"].risk_level = CRITICAL
    /\ last.prompts = <<Prompt(WarningEn(1), "en", FALSE)>>
    /\ ~last.returned

\* The most recent call was a destructive operation of a service.
Destructive == last.op \in {"delete_repository", "delete_resource_group"}

\* The call on the external client that deletes was reached.
DeleteReached ==
    \E i \in 1..Len(last.external) : last.external[i] \in {"delete", "begin_delete"}

\* C4 as stated: a destructive operation reaches the external delete call only
\* after request_consent was called and returned TRUE.
C4_DeleteOnlyAfterConsent ==
    (Destructive /\ DeleteReached) => (last.requested /\ last.returned)

\* C5: when request_consent returns FALSE inside a destructive operation, no
\* call at all is made on the external client and the operation returns
\* success FALSE with the denial in English for "en" and in Arabic for every
\* other language.
C5_DenialHalts ==
    (Destructive /\ last.requested /\ ~last.returned) =>
        /\ last.external = <<>>
        /\ last.result.success = FALSE
        /\ last.result.error = (IF last.language = "en" THEN DeniedEn ELSE DeniedAr)

\* C5 witness: the callback refused a deletion asked for in a language that
\* is neither "ar" nor "en".
C5_Witness ==
    /\ Destructive /\ last.requested /\ ~last.returned
    /\ last.prompts # <<>> /\ last.language = "fr"
    /\ last.result.error = DeniedAr

\* C11 as stated: request_consent never raises and every call yields one of
\* the booleans True and False, whatever the callback does: answer True,
\* answer False, answer a value that is no bool, or fail (which is to surface
\* as False).
C11_AlwaysABoolean ==
    Requested =>
        /\ ~last.raised
        /\ last.returned_type = "bool"

\* C12: register_action(d) inserts or replaces by name, last write wins: right
\* after it the entry of d.name is d (get_action_risk and get_warning give
\* d's risk and texts), every key is the name of its entry, and the entry of
\* every other name is what it was.
C12_LastWriteWins ==
    [][last'.op = "register_action" =>
        \E d \in RegisterInputs :
        /\ d = last'.action
        /\ DOMAIN Actions' = DOMAIN Actions \cup {d.name}
        /\ Actions'[d.name] = d
        /\ (get_action_risk(d.name))' = d.risk_level
        /\ \A l \in Languages : (get_warning(d.name, l))' = Action_get_warning(d, l)
        /\ \A n \in DOMAIN Actions' : Actions'[n].name = n
        /\ \A n \in DOMAIN Actions \ {d.name} : Actions'[n] = Actions[n]]_vars

\* C12 witness: a registration has just replaced the predefined
\* github_delete_repo, next to an entry registered earlier.
C12_Witness ==
    /\ last.op = "register_action" /\ last.action_name = "github_delete_repo"
    /\ Actions["github_delete_repo"] = last.action
    /\ Actions["github_delete_repo"].risk_level = SAFE
    /\ "wipe_db" \in DOMAIN Actions

\* C13 as stated: no entry of the registry has the empty string as its name,
\* whatever register_action was called with.
C13_NoEmptyName == "" \notin DOMAIN Actions

\* An Action of risk other than SAFE that lacks a warning text.
LacksWarning(action) ==
    action.risk_level # SAFE /\ (action.warning_ar = "" \/ action.warning_en = "")

\* C14 as stated: every entry of the registry whose risk is not SAFE has a
\* non-empty warning text in both languages.
C14_RiskyHasWarnings ==
    \A n \in DOMAIN Actions : ~LacksWarning(Actions[n])

\* C14 amended: an entry whose risk is not SAFE lacks a warning text only if
\* register_action was handed it that way; every predefined entry has both
\* texts.
C14_OnlyRegisteredLackWarnings ==
    \A n \in DOMAIN Actions :
        LacksWarning(Actions[n]) =>
            \E d \in UnvalidatedInputs :
                d.name = n /\ LacksWarning(d) /\ Actions[n] = d

\* C14 witness: an action of risk HIGH was registered with empty texts and
\* sits in the registry next to the predefined ones.
C14_Witness ==
    /\ "wipe_db" \in DOMAIN Actions /\ LacksWarning(Actions["wipe_db"])
    /\ Actions["wipe_db"].risk_level = HIGH
    /\ Actions["github_delete_repo"].risk_level = CRITICAL

\* The names the class body gives its entries.
SeedNames ==
    {"github_delete_repo", "github_force_push", "github_make_public",
     "azure_delete_resource", "azure_modify_permissions", "delete_file",
     "clear_history"}

\* The registry is as the class body built it: no register_action yet.
Untouched == Actions = PredefinedActions

\* C15 as stated: before any register_action the registry holds exactly six
\* actions, none of risk SAFE, covering LOW, MEDIUM, HIGH and CRITICAL, each
\* under the key that is its name.
C15_SixSeedActions ==
    Untouched =>
        /\ Cardinality(DOMAIN Actions) = 6
        /\ \A n \in DOMAIN Actions : Actions[n].risk_level # SAFE /\ Actions[n].name = n
        /\ {Actions[n].risk_level : n \in DOMAIN Actions} = {LOW, MEDIUM, HIGH, CRITICAL}

\* C15 amended: before any register_action the registry holds exactly seven
\* actions, none of risk SAFE, covering LOW, MEDIUM, HIGH and CRITICAL, each
\* under the key that is its name.
C15_SevenSeedActions ==
    Untouched =>
        /\ DOMAIN Actions = SeedNames /\ Cardinality(DOMAIN Actions) = 7
        /\ \A n \in DOMAIN Actions : Actions[n].risk_level # SAFE /\ Actions[n].name = n
        /\ {Actions[n].risk_level : n \in DOMAIN Actions} = {LOW, MEDIUM, HIGH, CRITICAL}

\* C15 witness: the state the process starts in.
C15_Witness == Untouched /\ last.op = "none"

\* C16: in the registry as the class body built it every action requires
\* consent on every gateway, whatever auto_approve_safe is; github_delete_repo
\* has risk CRITICAL and requires consent.
C16_SeedActionsRequireConsent ==
    Untouched =>
        /\ \A n \in SeedNames : \A g \in Gateways : requires_consent(g, n)
        /\ get_action_risk("github_delete_repo") = CRITICAL
        /\ \A n \in SeedNames : get_action_risk(n) # SAFE

\* C16 witness: no registration yet, auto_approve_safe on for one gateway and
\* off for the other.
C16_Witness ==
    /\ Untouched
    /\ \E g \in Gateways : ~auto_approve_safe[g]
    /\ \E g \in Gateways : auto_approve_safe[g]
    /\ \A g \in Gateways : requires_consent(g, "github_delete_repo")

\* C17: get_warning gives the empty string for every name that is no key of
\* the registry, in every language.
C17_UnknownHasNoWarning ==
    \A n \in (KnownNames \cup {""}) \ DOMAIN Actions :
        \A l \in Languages : get_warning(n, l) = ""

\* C17 witness: after registrations wipe_db is still no key and its warning
\* is empty, while a registered name has one.
C17_Witness ==
    /\ "wipe_db" \notin DOMAIN Actions /\ "" \in DOMAIN Actions
    /\ get_warning("wipe_db", "fr") = "" /\ get_warning("", "fr") # ""

\* The operations that only read.
Reads == {"requires_consent", "get_action_risk", "get_warning"}

\* C18: requires_consent, get_action_risk and get_warning leave the registry,
\* the policy and the callback as they were and invoke nothing, and what they
\* return is fixed by the registry, the name and auto_approve_safe or the
\* language.
C18_ReadsArePure ==
    [][last'.op \in Reads =>
        /\ Actions' = Actions
        /\ auto_approve_safe' = auto_approve_safe
        /\ callback' = callback
        /\ last'.prompts = <<>> /\ last'.rendered = <<>>
        /\ last'.op = "requires_consent" =>
              last'.truth = (IF last'.action_name \notin DOMAIN Actions THEN FALSE
                             ELSE ~(auto_approve_safe[last'.self]
                                    /\ Actions[last'.action_name].risk_level = SAFE))
        /\ last'.op = "get_action_risk" =>
              last'.value = (IF last'.action_name \in DOMAIN Actions
                             THEN Actions[last'.action_name].risk_level ELSE SAFE)
        /\ last'.op = "get_warning" =>
              last'.value = (IF last'.action_name \notin DOMAIN Actions THEN ""
                             ELSE IF last'.language = "ar"
                                  THEN Actions[last'.action_name].warning_ar
                                  ELSE Actions[last'.action_name].warning_en)]_vars

\* C18 witness: a read of a name that is no key of the registry has just
\* returned, after a registration changed the registry, and the name is
\* still no key.
C18_Witness ==
    /\ last.op = "requires_consent" /\ last.action_name = "unregistered_action"
    /\ last.truth = FALSE
    /\ "unregistered_action" \notin DOMAIN Actions
    /\ "wipe_db" \in DOMAIN Actions /\ ~auto_approve_safe[last.self]

-----------------------------------------------------------------------------
(* Threads inside request_consent *)

\* C19: requests that require consent and run at the same time each make their
\* own callback invocation and wait only for its answer: while another thread
\* is still waiting for the callback, a thread that has rendered its warning
\* can call the callback, a thread that waits can get either answer, and a
\* call that asked returns the answer its own invocation got.
C19_IndependentInvocations ==
    \A t \in Threads :
        /\ \A u \in Threads \ {t} :
            threads[u].pc = "AwaitingChannel" =>
                /\ (threads[t].pc = "Rendering" /\ callback[threads[t].self] # None)
                      => ENABLED (RenderBy(t) /\ threads'[t].pc = "AwaitingChannel")
                /\ threads[t].pc = "AwaitingChannel"
                      => \A answer \in ChannelAnswers :
                            ENABLED (AnswerBy(t) /\ threads'[t].returned = answer
                                                 /\ threads'[u] = threads[u])
        /\ threads[t].pc \in {"Approved", "Denied"}
              => threads[t].returned = threads[t].answer

\* One request has returned the approval of its own invocation while the
\* other, asked about another warning, is still waiting for its answer.
C19_Witness ==
    /\ threads["t1"].pc = "Approved"
    /\ threads["t1"].returned
    /\ threads["t2"].pc = "AwaitingChannel"
    /\ threads["t2"].warning # ""

\* The Action objects that were built whole: the seeded ones and the registered ones.
WholeActions == { SeedActions[n] : n \in DOMAIN SeedActions } \cup RegisterInputs

\* C20: a read that interleaves with register_action sees the entry of the dict
\* before the step (none, or the whole Action stored earlier), and a step changes an
\* entry only by replacing it with a whole registered Action under its own name:
\* no entry is removed, and none has some of its fields changed.
C20_ReadsSeeWholeActions ==
    [][ /\ DOMAIN Actions \subseteq DOMAIN Actions'
        /\ \A n \in DOMAIN Actions' :
              \/ n \in DOMAIN Actions /\ Actions'[n] = Actions[n]
              \/ Actions'[n] \in RegisterInputs /\ Actions'[n].name = n
        /\ \A t \in Threads :
              threads'[t].held # threads[t].held =>
                  /\ threads'[t].held = Fetch(threads'[t].action_name)
                  /\ threads'[t].held \in WholeActions \cup {NoAction}
      ]_vars

\* A thread holds the Action it read at the risk check, whole, after another
\* thread has replaced the entry of that name.
C20_Witness ==
    \E t \in Threads :
        /\ threads[t].pc = "Rendering"
        /\ threads[t].held # Fetch(threads[t].action_name)
        /\ threads[t].held \in WholeActions

-----------------------------------------------------------------------------
(* Instances and the shared registry *)

\* C21: ACTIONS is one dict for the whole process.  Only register_action changes
\* it, the construction of an instance included, and what one instance
\* registered is what requires_consent, get_action_risk, get_warning and
\* request_consent use on every instance, those constructed later too.
C21_SharedRegistry ==
    [][ /\ Actions' # Actions => last'.op = "register_action"
        /\ last'.op = "register_action" =>
              \E d \in RegisterInputs :
                /\ d = last'.action
                /\ \A g \in Gateways :
                    /\ (requires_consent(g, d.name))'
                          = ~(auto_approve_safe'[g] /\ d.risk_level = SAFE)
                    /\ (get_action_risk(d.name))' = d.risk_level
                    /\ \A l \in Languages :
                        /\ (get_warning(d.name, l))' = Action_get_warning(d, l)
                        /\ (requires_consent(g, d.name))' =>
                              (request_consent(g, d.name, l, TRUE)).rendered'
                                  = <<Action_get_warning(d, l)>>
        /\ last'.op = "__init__" =>
              \A n \in DOMAIN Actions, g \in Gateways :
                /\ n \in DOMAIN Actions'
                /\ (get_action_risk(n))' = Actions[n].risk_level
                /\ g = last'.self =>
                      (requires_consent(g, n))' = (Actions[n].risk_level # SAFE)
      ]_vars

\* An instance constructed after wipe_db was registered gates wipe_db.
C21_Witness ==
    /\ last.op = "__init__"
    /\ "wipe_db" \in DOMAIN Actions
    /\ Actions["wipe_db"].risk_level = CRITICAL
    /\ requires_consent(last.self, "wipe_db")
    /\ get_action_risk("wipe_db") = CRITICAL

\* C29: callback and auto_approve_safe are attributes of one instance.  Constructing
\* an instance or setting its auto_approve_safe leaves the attributes of every
\* other instance, and what requires_consent and request_consent give on it, as
\* they were; request_consent and register_action leave auto_approve_safe
\* alone; a new instance has auto_approve_safe on.
C29_PolicyPerInstance ==
    [][ /\ last'.op \in {"__init__", "auto_approve_safe"} =>
              \A h \in Gateways \ {last'.self} :
                /\ callback'[h] = callback[h]
                /\ auto_approve_safe'[h] = auto_approve_safe[h]
                /\ \A n \in RequestNames :
                    /\ (requires_consent(h, n))' = requires_consent(h, n)
                    /\ \A l \in Languages, answer \in ChannelAnswers :
                        (request_consent(h, n, l, answer))' = request_consent(h, n, l, answer)
        /\ last'.op \in {"request_consent", "register_action"} =>
              auto_approve_safe' = auto_approve_safe
        /\ last'.op = "__init__" => auto_approve_safe'[last'.self]
      ]_vars

\* One instance has just been constructed with a callback and has
\* auto_approve_safe on, while the other has it off and gates a SAFE action
\* the new one lets through.
C29_Witness ==
    /\ last.op = "__init__" /\ last.self = "bare"
    /\ callback["bare"] = Channel
    /\ auto_approve_safe["bare"] /\ ~auto_approve_safe["session"]
    /\ "github_delete_repo" \in DOMAIN Actions
    /\ Actions["github_delete_repo"].risk_level = SAFE
    /\ requires_consent("session", "github_delete_repo")
    /\ ~requires_consent("bare", "github_delete_repo")

-----------------------------------------------------------------------------
(* Predefined actions replaced at run time *)

-----------------------------------------------------------------------------
(* The path of one request *)

\* The steps a request takes from one state to the next.
Paths ==
    { <<"Evaluating", "AutoApproved">>, <<"Evaluating", "NoChannelDenied">>,
      <<"Evaluating", "Rendering">>, <<"Rendering", "NoChannelDenied">>,
      <<"Rendering", "AwaitingChannel">>,
      <<"AwaitingChannel", "Approved">>, <<"AwaitingChannel", "Denied">> }

C27_WarningOfDecidedAction ==
    \A t \in Threads :
        threads[t].pc = "AwaitingChannel" =>
            threads[t].warning
                = Action_get_warning(threads[t].decided, threads[t].language)

-----------------------------------------------------------------------------
(* The workspace *)

\* The tasks of a user in the store.
TasksOf(username) == {t \in db.tasks : t.user_id = username}

\* The notes of a user in the store.
NotesOf(username) == {n \in db.notes : n.user_id = username}

\* C23: whatever tasks and notes were created, toggled and deleted, get_stats
\* gives total_tasks = pending_tasks + completed_tasks, total_tasks the number
\* of the user's tasks in the store, completed_tasks the number of them that are
\* completed, and total_notes the number of the user's notes.
C23_StatsAddUp ==
    reply.op = "get_stats" =>
        LET stats == reply.stats
            mine == TasksOf(reply.username)
        IN  /\ stats.total_tasks = stats.pending_tasks + stats.completed_tasks
            /\ stats.total_tasks = Cardinality(mine)
            /\ stats.completed_tasks = Cardinality({t \in mine : t.completed})
            /\ stats.total_notes = Cardinality(NotesOf(reply.username))

\* The statistics of a user with one completed task, while the store also
\* holds a row of another user.
C23_Witness ==
    /\ reply.op = "get_stats"
    /\ reply.stats.completed_tasks = 1 /\ reply.stats.pending_tasks = 0
    /\ \/ \E t \in db.tasks : t.user_id # reply.username
       \/ \E n \in db.notes : n.user_id # reply.username

\* C24: create_task adds a task that is not completed.  toggle_task on a task
\* of the user flips completed on that task and leaves every other row as it
\* was.  list_tasks() gives the user's tasks that are not completed and
\* list_tasks(show_completed=True) all of the user's tasks.
C24_ToggleFlips ==
    [][ /\ reply'.op = "create_task" =>
              /\ db'.tasks \ db.tasks
                    = {Task(reply'.id, reply'.username, "Task 1", FALSE)}
              /\ db.tasks \subseteq db'.tasks
        /\ (reply'.op = "toggle_task" /\ ~reply'.raised) =>
              \A t \in db.tasks :
                IF t.id = reply'.id /\ t.user_id = reply'.username
                THEN /\ [t EXCEPT !.completed = ~t.completed] \in db'.tasks
                     /\ t \notin db'.tasks
                     /\ Cardinality(db'.tasks) = Cardinality(db.tasks)
                ELSE t \in db'.tasks
        /\ reply'.op = "list_tasks" =>
              reply'.listed =
                  IF reply'.returned
                  THEN {t \in db.tasks : t.user_id = reply'.username}
                  ELSE {t \in db.tasks : t.user_id = reply'.username /\ ~t.completed}
      ]_vars

\* A completed task was toggled back next to a task left alone all along.
C24_Witness ==
    /\ reply.op = "toggle_task" /\ reply.returned
    /\ \E t \in db.tasks :
        t.id = reply.id /\ t.user_id = reply.username /\ ~t.completed
    /\ \E t \in db.tasks : t.id # reply.id /\ t.completed

\* C30: toggle_task, delete_task, delete_note and update_note of the workspace
\* return True unless the store raised, and then False.  Called with an id
\* under which the user has no row (no row at all, or a row of another user),
\* they leave the tasks and the notes as they were.
C30_MissingIdIsSilent ==
    [][ reply'.op \in {"toggle_task", "delete_task", "delete_note", "update_note"} =>
          /\ reply'.returned = ~reply'.raised
          /\ reply'.raised => db' = db
          /\ ( /\ reply'.op \in {"toggle_task", "delete_task"}
               /\ ~\E t \in db.tasks : t.id = reply'.id /\ t.user_id = reply'.username )
                => db' = db
          /\ ( /\ reply'.op \in {"delete_note", "update_note"}
               /\ ~\E n \in db.notes : n.id = reply'.id /\ n.user_id = reply'.username )
                => db' = db
      ]_vars

\* delete_task returned True for an id that belongs to a task of another
\* user, and that task is still there.
C30_Witness ==
    /\ reply.op = "delete_task" /\ reply.returned
    /\ \E t \in db.tasks : t.id = reply.id /\ t.user_id # reply.username

-----------------------------------------------------------------------------
(* Preferences and conversation history *)

\* C25: get_preference gives the value of the latest set_preference for the
\* user and key, or None when there was none.  Step by step: set_preference
\* makes its value the one get_preference gives for that user and key and
\* changes what it gives for no other; get_preference gives what the store
\* holds and changes nothing; there is never more than one row for a user and key.
C25_LatestPreference ==
    [][ /\ reply'.op = "set_preference" =>
              \A u \in Users, k \in Keys :
                (MemoryManager_get_preference(u, k))' =
                    IF u = reply'.username /\ k = reply'.key
                    THEN reply'.value
                    ELSE MemoryManager_get_preference(u, k)
        /\ reply'.op = "get_preference" =>
              /\ db' = db
              /\ \A u \in Users, k \in Keys :
                    (u = reply'.username /\ k = reply'.key) =>
                        reply'.value = MemoryManager_get_preference(u, k)
        /\ \A u \in Users, k \in Keys :
              /\ Cardinality((PreferenceRows(u, k))') <= 1
              /\ (PreferenceRows(u, k) = {} /\ (PreferenceRows(u, k))' = {})
                    => (MemoryManager_get_preference(u, k))' = None
      ]_vars

\* get_preference gave "en" for a key of one user that the other user has set
\* to "ar", a second key of the first user being set as well.
C25_Witness ==
    /\ reply.op = "get_preference" /\ reply.username = "default"
    /\ reply.key = "language" /\ reply.value = "en"
    /\ MemoryManager_get_preference("guest", "language") = "ar"
    /\ MemoryManager_get_preference("default", "theme") # None
    /\ MemoryManager_get_preference("guest", "theme") = None

\* The latest `limit` messages of a user, in the order add_conversation added them.
LatestMessages(username, limit) ==
    LET rows == ConversationsOf(username)
        n == Cardinality(rows)
        taken == Min(limit, n)
    IN  [k \in 1..taken |->
            db.conversations[
                CHOOSE i \in rows : Cardinality({j \in rows : j > i}) = taken - k].content]

\* C26 as stated: get_conversation_history gives at most `limit` messages, the
\* latest ones the user added, oldest first, also for messages that got the
\* same created_at.
C26_LatestInOrderAdded ==
    reply.op = "get_conversation_history" =>
        reply.history = LatestMessages(reply.username, reply.limit)

====
